---------------------------- MODULE Spec2Model ----------------------------
(***************************************************************************)
(* Distributed training of LightGBM over Dask (python-package/lightgbm/   *)
(* dask.py): port probing (_find_open_port), port negotiation             *)
(* (_find_ports_for_workers), the training round (_train, _train_part)    *)
(* and the estimator entry points (_LGBMModel._fit, DaskLGBMRanker.fit).  *)
(*                                                                         *)
(* The client runs single-threaded; probes and training jobs run on the   *)
(* workers.  A Python dict is a sequence of <<key, value>> pairs in        *)
(* insertion order; a Python set is a set.                                 *)
(***************************************************************************)
EXTENDS Integers, Sequences, FiniteSets, TLC

VARIABLES
    call,               \* the entry point called and its arguments
    busy,               \* environment: host -> ports on which bind() fails
    replicas,           \* environment: most workers holding one partition
    estimator,          \* the params of the Dask estimator (self.get_params())
    fits,               \* the fits of the estimator that have returned
    who_has,            \* _train: the answer of client.who_has(parts)
    model_calls,        \* _predict_part: the calls made on the model
    pc,                 \* position of the client in the called function
    parts,              \* _train: the partition futures (tuple, status)
    worker_map,         \* _train: dict worker -> list of parts
    master_worker,      \* _train: first key of worker_map
    params,             \* _train: deep copy of the caller's params
    local_listen_port,  \* first port to try
    worker_addresses,   \* _find_ports_for_workers: the addresses iterated
    lightgbm_ports,     \* _find_ports_for_workers: set of ports handed out
    worker_ip_to_port,  \* _find_ports_for_workers: dict address -> port
    probes,             \* the _find_open_port calls made so far, in order
    futures_classifiers,\* _train: the submitted _train_part jobs
    outcome             \* what the entry point returned or raised

vars == <<call, busy, replicas, estimator, fits, who_has, model_calls, pc, parts, worker_map, master_worker, params,
          local_listen_port, worker_addresses, lightgbm_ports,
          worker_ip_to_port, probes, futures_classifiers, outcome>>

\* Python's None, where a string, a tuple (a worker address, a grid of
\* blocks) or a job result is expected; a dict holds no None values: for
\* d.get(key), a key whose value is None is an absent key
None == "None"
NoWorker == <<>>
NoGrid == <<>>
NoResult == [kind |-> "none"]

(***************************************************************************)
(* The cluster: three workers, two of them on one host.                    *)
(***************************************************************************)
W1 == <<"tcp", "h1", 8001>>
W2 == <<"tcp", "h1", 8002>>
W3 == <<"tcp", "h2", 8001>>
ClusterWorkers == {W1, W2, W3}

\* urlparse(worker_address).hostname
hostname(worker_address) == worker_address[2]

Hosts == {hostname(w) : w \in ClusterWorkers}

(***************************************************************************)
(* Python dicts as sequences of <<key, value>> pairs.                      *)
(***************************************************************************)
Keys(d) == {d[n][1] : n \in 1..Len(d)}
HasKey(d, key) == key \in Keys(d)
Lookup(d, key) == d[CHOOSE n \in 1..Len(d) : d[n][1] = key][2]
Get(d, key, default) == IF HasKey(d, key) THEN Lookup(d, key) ELSE default
\* d[key] = value
SetItem(d, key, value) ==
    IF HasKey(d, key)
    THEN [n \in 1..Len(d) |-> IF d[n][1] = key THEN <<key, value>> ELSE d[n]]
    ELSE Append(d, <<key, value>>)

(***************************************************************************)
(* _find_open_port                                                         *)
(***************************************************************************)
max_tries == 1000
DefaultPort == 12400

\* s.bind((worker_ip, out_port)) succeeds
bind(worker_ip, out_port) == out_port \notin busy[worker_ip]

\* the call as submitted: nothing executed yet; out_port is None (here 0)
\* until the first iteration, bound is the last port bind() was called on
NewProbe(worker, worker_ip, start, ports_to_skip) ==
    [worker |-> worker, worker_ip |-> worker_ip, local_listen_port |-> start,
     ports_to_skip |-> ports_to_skip, i |-> 0, out_port |-> 0,
     found_port |-> FALSE, bound |-> 0, status |-> "loop", result |-> 0]

\* mutant: one iteration too many
InLoopOneMore(p) == p.status = "loop" /\ ~p.found_port /\ p.i <= max_tries

\* the loop runs on: for i in range(max_tries), no break yet
InLoop(p) == p.status = "loop" /\ ~p.found_port /\ p.i < max_tries

\* one iteration whose port is in ports_to_skip: continue
IterSkip(p) ==
    [p EXCEPT !.out_port = p.local_listen_port + p.i, !.i = p.i + 1]

\* one iteration whose bind succeeds: found_port = True; break
IterBound(p) ==
    [p EXCEPT !.out_port = p.local_listen_port + p.i,
              !.bound = p.local_listen_port + p.i,
              !.found_port = TRUE]

\* one iteration whose bind raises OSError: continue
IterOSError(p) ==
    [p EXCEPT !.out_port = p.local_listen_port + p.i,
              !.bound = p.local_listen_port + p.i,
              !.i = p.i + 1]

\* mutant: the avoid-set is ignored
SkipsPortNever(p) == FALSE

\* is the port of this iteration skipped
SkipsPort(p) == (p.local_listen_port + p.i) \in p.ports_to_skip

\* raise RuntimeError(msg % (worker_ip, local_listen_port, out_port))
PortError(p) ==
    [exc |-> "RuntimeError", host |-> p.worker_ip,
     first |-> p.local_listen_port, last |-> p.out_port]

\* the statements after the loop
AfterLoop(p) ==
    IF ~p.found_port
    THEN [p EXCEPT !.status = "raised", !.result = PortError(p)]
    ELSE [p EXCEPT !.status = "returned", !.result = p.out_port]

\* a probe that was submitted (or called) and has not finished
Running(n) == n \in 1..Len(probes) /\ probes[n].status = "loop"

ProbeSkip(n) ==
    /\ Running(n) /\ InLoop(probes[n]) /\ SkipsPort(probes[n])
    /\ probes' = [probes EXCEPT ![n] = IterSkip(probes[n])]
    /\ UNCHANGED <<call, busy, replicas, estimator, fits, who_has, model_calls,
                   pc, parts, worker_map, master_worker, params,
                   local_listen_port, worker_addresses, lightgbm_ports,
                   worker_ip_to_port, futures_classifiers, outcome>>

ProbeBound(n) ==
    /\ Running(n) /\ InLoop(probes[n]) /\ ~SkipsPort(probes[n])
    /\ bind(probes[n].worker_ip, probes[n].local_listen_port + probes[n].i)
    /\ probes' = [probes EXCEPT ![n] = IterBound(probes[n])]
    /\ UNCHANGED <<call, busy, replicas, estimator, fits, who_has, model_calls,
                   pc, parts, worker_map, master_worker, params,
                   local_listen_port, worker_addresses, lightgbm_ports,
                   worker_ip_to_port, futures_classifiers, outcome>>

ProbeOSError(n) ==
    /\ Running(n) /\ InLoop(probes[n]) /\ ~SkipsPort(probes[n])
    /\ ~bind(probes[n].worker_ip, probes[n].local_listen_port + probes[n].i)
    /\ probes' = [probes EXCEPT ![n] = IterOSError(probes[n])]
    /\ UNCHANGED <<call, busy, replicas, estimator, fits, who_has, model_calls,
                   pc, parts, worker_map, master_worker, params,
                   local_listen_port, worker_addresses, lightgbm_ports,
                   worker_ip_to_port, futures_classifiers, outcome>>

\* the loop is over: return out_port or raise; a direct call ends here
ProbeExit(n) ==
    /\ Running(n) /\ probes[n].status = "loop" /\ ~InLoop(probes[n])
    /\ probes' = [probes EXCEPT ![n] = AfterLoop(probes[n])]
    /\ IF call.entry = "_find_open_port"
       THEN /\ pc' = "done"
            /\ outcome' = [kind |-> AfterLoop(probes[n]).status,
                           value |-> AfterLoop(probes[n]).result]
       ELSE UNCHANGED <<pc, outcome>>
    /\ UNCHANGED <<call, busy, replicas, estimator, fits, who_has, model_calls,
                   parts, worker_map, master_worker, params,
                   local_listen_port, worker_addresses, lightgbm_ports,
                   worker_ip_to_port, futures_classifiers>>

(***************************************************************************)
(* _find_ports_for_workers                                                 *)
(***************************************************************************)
\* mutant: the set of claimed ports is not passed on
SubmitProbeNoSkip(worker_address) ==
    NewProbe(worker_address, hostname(worker_address), local_listen_port, {})

\* mutant: only the ports claimed on the worker's own host are passed on
SubmitProbePerHost(worker_address) ==
    NewProbe(worker_address, hostname(worker_address), local_listen_port,
             {worker_ip_to_port[n][2] : n \in
                 {m \in 1..Len(worker_ip_to_port) :
                     hostname(worker_ip_to_port[m][1]) = hostname(worker_address)}})

\* client.submit(func=_find_open_port, workers=[worker_address],
\*               worker_ip=..., local_listen_port=..., ports_to_skip=...)
SubmitProbe(worker_address) ==
    NewProbe(worker_address, hostname(worker_address), local_listen_port,
             lightgbm_ports)

\* mutant: the client does not wait for the probe
AfterSubmitNoWait == "ports_loop"

\* .result() blocks the client until the probe has finished
AfterSubmit == "ports_wait"

\* lightgbm_ports.add(port)
AddPort(ports, port) == ports \cup {port}

\* the for loop takes the next address: submit its probe
FindPortsSubmit ==
    /\ pc = "ports_loop"
    /\ Len(probes) < Len(worker_addresses)
    /\ probes' = Append(probes, SubmitProbe(worker_addresses[Len(probes) + 1]))
    /\ pc' = AfterSubmit
    /\ UNCHANGED <<call, busy, replicas, estimator, fits, who_has, model_calls,
                   parts, worker_map, master_worker, params,
                   local_listen_port, worker_addresses, lightgbm_ports,
                   worker_ip_to_port, futures_classifiers, outcome>>

\* .result() returns the port: record it and go on with the loop
FindPortsResult ==
    /\ pc = "ports_wait"
    /\ probes # <<>> /\ probes[Len(probes)].status = "returned"
    /\ LET p == probes[Len(probes)] IN
       /\ lightgbm_ports' = AddPort(lightgbm_ports, p.result)
       /\ worker_ip_to_port' = SetItem(worker_ip_to_port, p.worker, p.result)
    /\ pc' = "ports_loop"
    /\ UNCHANGED <<call, busy, replicas, estimator, fits, who_has, model_calls,
                   parts, worker_map, master_worker, params,
                   local_listen_port, worker_addresses, probes,
                   futures_classifiers, outcome>>

\* .result() re-raises the probe's RuntimeError: it leaves every caller
FindPortsRaise ==
    /\ pc = "ports_wait"
    /\ probes # <<>> /\ probes[Len(probes)].status = "raised"
    /\ pc' = "done"
    /\ outcome' = [kind |-> "raised", value |-> probes[Len(probes)].result]
    /\ UNCHANGED <<call, busy, replicas, estimator, fits, who_has, model_calls,
                   parts, worker_map, master_worker, params,
                   local_listen_port, worker_addresses, lightgbm_ports,
                   worker_ip_to_port, probes, futures_classifiers>>

\* the loop is over: return worker_ip_to_port
FindPortsReturn ==
    /\ pc = "ports_loop"
    /\ Len(probes) = Len(worker_addresses)
    /\ IF call.entry = "_find_ports_for_workers"
       THEN /\ pc' = "done"
            /\ outcome' = [kind |-> "returned", value |-> worker_ip_to_port]
       ELSE /\ pc' = "submit"
            /\ UNCHANGED outcome
    /\ UNCHANGED <<call, busy, replicas, estimator, fits, who_has, model_calls,
                   parts, worker_map, master_worker, params,
                   local_listen_port, worker_addresses, lightgbm_ports,
                   worker_ip_to_port, probes, futures_classifiers>>

(***************************************************************************)
(* _ConfigAliases (basic.py) and the dict operations _train uses           *)
(***************************************************************************)
ConfigAliases(name) ==
    CASE name = "tree_learner" ->
           {"tree_learner", "tree", "tree_type", "tree_learner_type"}
      [] name = "local_listen_port" ->
           {"local_listen_port", "local_port", "port"}
      [] name = "num_threads" ->
           {"num_threads", "num_thread", "nthread", "nthreads", "n_jobs"}

\* d.pop(key, None)
Pop(d, key) == SelectSeq(d, LAMBDA kv : kv[1] # key)

\* mutant: only the key num_threads itself is dropped
PopMain(d, keys) == Pop(d, "num_threads")

RECURSIVE PopAll(_, _)
\* for key in keys: d.pop(key, None)
PopAll(d, keys) ==
    IF keys = {} THEN d
    ELSE LET key == CHOOSE x \in keys : TRUE
         IN PopAll(Pop(d, key), keys \ {key})

RECURSIVE Update(_, _)
\* d.update(other)
Update(d, other) ==
    IF other = <<>> THEN d
    ELSE Update(SetItem(d, other[1][1], other[1][2]), Tail(other))

\* the values a loop "for alias in aliases: v = d.get(alias); if v is not
\* None: break" can end with, none when no alias is set: a set is iterated
\* in no fixed order
FirstSet(d, aliases) == {Lookup(d, a) : a \in {x \in aliases : HasKey(d, x)}}

(***************************************************************************)
(* _split_to_parts and the partition tuples of _train                      *)
(***************************************************************************)
MaxParts == 2

\* a collection is the grid of its delayed blocks: <<row blocks, column
\* blocks>>; the assertion of _split_to_parts
SplitAsserts(grid, is_matrix) ==
    IF is_matrix THEN grid[2] = 1 ELSE (Len(grid) = 1 \/ grid[2] = 1)

\* the number of blocks of a grid
Blocks(grid) == IF Len(grid) = 1 THEN grid[1] ELSE grid[1] * grid[2]

\* parts.flatten().tolist(): the block ids of one collection
split_to_parts(name, grid) == [n \in 1..Blocks(grid) |-> <<name, n>>]

Min(a, b) == IF a < b THEN a ELSE b

\* zip(...) stops at the shortest of its arguments
Zip2(a, b) == [n \in 1..Min(Len(a), Len(b)) |-> <<a[n], b[n]>>]
Zip3(a, b, c) ==
    [n \in 1..Min(Len(a), Min(Len(b), Len(c))) |-> <<a[n], b[n], c[n]>>]
Zip4(a, b, c, d) ==
    [n \in 1..Min(Min(Len(a), Len(b)), Min(Len(c), Len(d))) |->
        <<a[n], b[n], c[n], d[n]>>]

\* lines 192-205: the tuples (data, label[, weight][, group])
ZipParts(data, label, sample_weight, group) ==
    LET data_parts == split_to_parts("data", data)
        label_parts == split_to_parts("label", label)
        weight_parts == IF sample_weight # NoGrid
                        THEN split_to_parts("weight", sample_weight) ELSE <<>>
        group_parts == IF group # NoGrid
                       THEN split_to_parts("group", group) ELSE <<>>
    IN  IF sample_weight = NoGrid /\ group = NoGrid
        THEN Zip2(data_parts, label_parts)
        ELSE IF sample_weight # NoGrid /\ group = NoGrid
        THEN Zip3(data_parts, label_parts, weight_parts)
        ELSE IF sample_weight = NoGrid /\ group # NoGrid
        THEN Zip3(data_parts, label_parts, group_parts)
        ELSE Zip4(data_parts, label_parts, weight_parts, group_parts)

\* client.compute(parts): one future per tuple, its key is its position
ComputeParts(tuples) ==
    [n \in 1..Len(tuples) |->
        [key |-> n, tuple |-> tuples[n], status |-> "pending", exception |-> None]]

(***************************************************************************)
(* _train up to the port negotiation                                       *)
(***************************************************************************)
MaxOwners == 2

\* client.ncores(): the cores each worker reports
worker_ncores == <<<<W1, 2>>, <<W2, 4>>, <<W3, 8>>>>

is_ranker(model_factory) == model_factory = "LGBMRanker"

\* DaskLGBMRanker.fit: init_score is not supported
RankerFitRaises == is_ranker(call.model_factory) /\ call.init_score # None

\* the assertions of the _split_to_parts calls of _train all hold
SplitsAssert ==
    /\ SplitAsserts(call.data, TRUE)
    /\ SplitAsserts(call.label, FALSE)
    /\ call.sample_weight # NoGrid => SplitAsserts(call.sample_weight, FALSE)
    /\ call.group # NoGrid => SplitAsserts(call.group, FALSE)

\* fit -> _fit -> _train, lines 370 and 189-210: params is a deep copy of
\* self.get_params(True); split, zip,
\* start the computation of the tuples and wait
TrainStart ==
    /\ pc = "fit"
    /\ IF RankerFitRaises
       THEN /\ pc' = "done"
            /\ outcome' = [kind |-> "raised", value |-> [exc |-> "RuntimeError"]]
            /\ UNCHANGED <<params, parts>>
       ELSE IF ~SplitsAssert
       THEN /\ pc' = "done"
            /\ outcome' = [kind |-> "raised", value |-> [exc |-> "AssertionError"]]
            /\ params' = estimator
            /\ UNCHANGED parts
       ELSE /\ pc' = "wait_parts"
            /\ params' = estimator
            /\ parts' = ComputeParts(ZipParts(call.data, call.label,
                                              call.sample_weight, call.group))
            /\ UNCHANGED outcome
    /\ UNCHANGED <<call, busy, replicas, estimator, fits, who_has, model_calls,
                   worker_map, master_worker, local_listen_port,
                   worker_addresses, lightgbm_ports, worker_ip_to_port,
                   probes, futures_classifiers>>

\* a worker finishes the computation of one tuple
PartFinished(n) ==
    /\ n \in 1..Len(parts) /\ parts[n].status = "pending"
    /\ parts' = [parts EXCEPT ![n].status = "finished"]
    /\ UNCHANGED <<call, busy, replicas, estimator, fits, who_has, model_calls,
                   pc, worker_map, master_worker, params,
                   local_listen_port, worker_addresses, lightgbm_ports,
                   worker_ip_to_port, probes, futures_classifiers, outcome>>

\* the computation of one tuple raises: the future keeps the exception
PartError(n) ==
    /\ n \in 1..Len(parts) /\ parts[n].status = "pending"
    /\ parts' = [parts EXCEPT ![n].status = "error",
                              ![n].exception = "ComputeError"]
    /\ UNCHANGED <<call, busy, replicas, estimator, fits, who_has, model_calls,
                   pc, worker_map, master_worker, params,
                   local_listen_port, worker_addresses, lightgbm_ports,
                   worker_ip_to_port, probes, futures_classifiers, outcome>>

\* wait(parts) returns once every future has settled
WaitDone(ps) == \A n \in 1..Len(ps) : ps[n].status # "pending"

\* lines 212-214: the first part whose status is 'error', if any
FirstError(ps) ==
    IF \E n \in 1..Len(ps) : ps[n].status = "error"
    THEN CHOOSE n \in 1..Len(ps) :
            /\ ps[n].status = "error"
            /\ \A m \in 1..(n - 1) : ps[m].status # "error"
    ELSE 0

\* sequences of distinct elements of S, of length lo..hi
Injections(S, lo, hi) ==
    {q \in UNION {[1..k -> S] : k \in lo..hi} :
        \A a, b \in 1..Len(q) : a # b => q[a] # q[b]}

\* what client.who_has(parts) can answer: the keys in any order, each with
\* the workers that hold it, at most replicas of them
WhoHasAnswers(ps) ==
    {[n \in 1..Len(ps) |-> <<order[n], owners[n]>>] :
        order \in Injections(1..Len(ps), Len(ps), Len(ps)),
        owners \in [1..Len(ps) -> Injections(ClusterWorkers, 1, replicas)]}

\* mutant: the last worker reported for the key
LastOwner(workers) == workers[Len(workers)]

\* next(iter(workers))
FirstOwner(workers) == workers[1]

RECURSIVE BuildWorkerMap(_, _)
\* lines 219-221: worker_map[next(iter(workers))].append(key_to_part_dict[key])
BuildWorkerMap(pairs, wm) ==
    IF pairs = <<>> THEN wm
    ELSE LET key == pairs[1][1]
             worker == FirstOwner(pairs[1][2])
         IN BuildWorkerMap(Tail(pairs),
                           SetItem(wm, worker, Append(Get(wm, worker, <<>>), key)))

\* mutant: the master is a fixed worker of the cluster
MasterWorkerFixed(wm) == W1

\* line 223: next(iter(worker_map))
MasterWorker(wm) == wm[1][1]

Lower(str) ==
    CASE str = "DATA" -> "data"
      [] str = "Voting_Parallel" -> "voting_parallel"
      [] OTHER -> str

allowed_tree_learners ==
    {"data", "data_parallel", "feature", "feature_parallel", "voting",
     "voting_parallel"}

\* lines 240-245, for the value the alias loop ended with
ResolveTreeLearner(d, tree_learner) ==
    IF tree_learner = None THEN SetItem(d, "tree_learner", "data")
    ELSE IF Lower(tree_learner) \notin allowed_tree_learners
    THEN SetItem(d, "tree_learner", "data")
    ELSE d

\* the alias loop ends with None when no alias is set
OrNone(vals) == IF vals = {} THEN {None} ELSE vals

\* lines 247-252, for the values the alias loop can end with
ResolvePort(vals) == IF vals = {} THEN {DefaultPort} ELSE vals

\* _train returned an errored future: _fit calls get_params() on it
FitOfFuture == [kind |-> "raised", value |-> [exc |-> "AttributeError"]]

\* lines 212-252, once wait(parts) has returned
TrainPlan ==
    /\ pc = "wait_parts"
    /\ WaitDone(parts)
    /\ IF FirstError(parts) # 0
       THEN /\ pc' = "done"
            /\ outcome' = FitOfFuture
            /\ UNCHANGED <<who_has, worker_map, master_worker, params,
                           local_listen_port, worker_addresses>>
       ELSE /\ who_has' \in WhoHasAnswers(parts)
            /\ worker_map' = BuildWorkerMap(who_has', <<>>)
            /\ master_worker' = MasterWorker(worker_map')
            /\ worker_addresses' =
                   [n \in 1..Len(worker_map') |-> worker_map'[n][1]]
            /\ \E tree_learner \in OrNone(FirstSet(params, ConfigAliases("tree_learner"))) :
                 params' = ResolveTreeLearner(params, tree_learner)
            /\ local_listen_port' \in
                 ResolvePort(FirstSet(params, ConfigAliases("local_listen_port")))
            /\ pc' = "ports_loop"
            /\ UNCHANGED outcome
    /\ UNCHANGED <<call, busy, replicas, estimator, fits, model_calls,
                   parts, lightgbm_ports, worker_ip_to_port,
                   probes, futures_classifiers>>

(***************************************************************************)
(* _train: the training jobs                                               *)
(***************************************************************************)
DefaultTimeOut == 120

\* the arguments of model.fit before the job has called it; an argument
\* that is None or not passed is the empty list of rows
NoFitArgs == [data |-> <<>>, label |-> <<>>, weight |-> <<>>, group |-> <<>>]

\* one client.submit(_train_part, ...) of lines 268-276
TrainJob(ps, worker, list_of_parts) ==
    [worker |-> worker,
     list_of_parts |-> list_of_parts,
     params |-> SetItem(ps, "num_threads", Lookup(worker_ncores, worker)),
     time_out |-> Get(ps, "time_out", DefaultTimeOut),
     return_model |-> (worker = master_worker),
     status |-> "pending", runs_on |-> NoWorker, result |-> NoResult,
     fit_args |-> NoFitArgs, network_free |-> 0]

\* lines 263-276: drop the num_threads aliases, submit one job per entry
\* of worker_map
SubmitJobs ==
    /\ pc = "submit"
    /\ params' = PopAll(params, ConfigAliases("num_threads"))
    /\ futures_classifiers' =
          [n \in 1..Len(worker_map) |->
              TrainJob(params', worker_map[n][1], worker_map[n][2])]
    /\ pc' = "gather"
    /\ UNCHANGED <<call, busy, replicas, estimator, fits, who_has, model_calls,
                   parts, worker_map, master_worker,
                   local_listen_port, worker_addresses, lightgbm_ports,
                   worker_ip_to_port, probes, outcome>>

\* the workers the scheduler may run a submitted job on: the submit of
\* lines 268-275 passes no workers= argument
Eligible(job) == ClusterWorkers

RECURSIVE Join(_, _)
\* sep.join(strs)
Join(sep, strs) ==
    IF strs = <<>> THEN ""
    ELSE IF Len(strs) = 1 THEN strs[1]
    ELSE strs[1] \o sep \o Join(sep, Tail(strs))

\* '%s:%d' % (urlparse(worker_address).hostname, port)
HostPort(worker_address, port) ==
    hostname(worker_address) \o ":" \o ToString(port)

\* lines 123-127: the host:port entries in the order of the mapping, joined
\* by commas
machine_list(worker_address_to_port) ==
    Join(",", [n \in 1..Len(worker_address_to_port) |->
                  HostPort(worker_address_to_port[n][1],
                           worker_address_to_port[n][2])])

\* lines 128-133
network_params(worker_address_to_port, local_worker_address, time_out) ==
    <<<<"machines", machine_list(worker_address_to_port)>>,
      <<"local_listen_port", Lookup(worker_address_to_port, local_worker_address)>>,
      <<"time_out", time_out>>,
      <<"num_machines", Len(worker_address_to_port)>>>>

\* the rows of a block: the supplied collections are chunked alike, the
\* n-th partition of each having n rows
chunk_rows(block) == block[2]

RECURSIVE concat(_)
\* _concat, lines 109-117: the rows of the blocks, block after block; a row
\* is <<collection, partition, row of the partition>>
concat(seq) ==
    IF seq = <<>> THEN <<>>
    ELSE [r \in 1..chunk_rows(seq[1]) |-> <<seq[1][1], seq[1][2], r>>]
         \o concat(Tail(seq))

\* mutant: the label blocks are taken in the reverse order of the list
ColumnLabelReversed(tuples, k) ==
    [n \in 1..Len(tuples) |->
        tuples[IF k = 2 THEN Len(tuples) + 1 - n ELSE n][k]]

\* parts[k] of line 139, parts = tuple(zip(*list_of_parts)): the k-th block
\* of every tuple, in the order of the list
Column(tuples, k) == [n \in 1..Len(tuples) |-> tuples[n][k]]

\* lines 136-152: the blocks passed to model.fit
FitArgs(model_factory, tuples) ==
    LET len == Len(tuples[1])
    IN  [data |-> concat(Column(tuples, 1)),
         label |-> concat(Column(tuples, 2)),
         weight |-> IF is_ranker(model_factory)
                    THEN IF len = 4 THEN concat(Column(tuples, 3)) ELSE <<>>
                    ELSE IF len = 3 THEN concat(Column(tuples, 3)) ELSE <<>>,
         group |-> IF is_ranker(model_factory)
                   THEN concat(Column(tuples, len)) ELSE <<>>]

\* lines 122-152: the job starts on the worker the scheduler chose; the
\* lookup of its address raises KeyError when the mapping has no such key.
\* Otherwise it builds the arguments of fit and enters the try block.
\* The jobs are followed until the client leaves gather.
TrainPartStart(j, w) ==
    /\ pc = "gather"
    /\ j \in 1..Len(futures_classifiers)
    /\ futures_classifiers[j].status = "pending"
    /\ w \in Eligible(futures_classifiers[j])
    /\ futures_classifiers' =
         [futures_classifiers EXCEPT ![j] =
            IF HasKey(worker_ip_to_port, w)
            THEN [@ EXCEPT !.status = "running", !.runs_on = w,
                           !.fit_args = FitArgs(call.model_factory,
                               [n \in 1..Len(futures_classifiers[j].list_of_parts) |->
                                   parts[futures_classifiers[j].list_of_parts[n]].tuple]),
                           !.params = Update(@, network_params(
                               worker_ip_to_port, w,
                               futures_classifiers[j].time_out))]
            ELSE [@ EXCEPT !.status = "error", !.runs_on = w,
                           !.result = [kind |-> "raised", exc |-> "KeyError"]]]
    /\ UNCHANGED <<call, busy, replicas, estimator, fits, who_has, model_calls,
                   pc, parts, worker_map, master_worker, params,
                   local_listen_port, worker_addresses, lightgbm_ports,
                   worker_ip_to_port, probes, outcome>>

\* line 155, in the finally block: _safe_call(_LIB.LGBM_NetworkFree())
NetworkFree(job) == [job EXCEPT !.network_free = @ + 1]

\* what the try block can raise: the exception of model_factory(**params)
\* or of model.fit(...), which take the same path out of the job
FitErrors == {"FitError"}

\* mutant: every job returns its model
FitReturnsModel(job) ==
    NetworkFree([job EXCEPT !.status = "finished",
                            !.result = [kind |-> "model", worker |-> job.worker,
                                        params |-> job.params]])

\* lines 143-157 when fit returns: the finally block frees the network, the
\* job built with return_model returns the model, which keeps the params it
\* was constructed with (line 144), the others None
FitReturns(job) ==
    NetworkFree([job EXCEPT !.status = "finished",
                            !.result = IF job.return_model
                                       THEN [kind |-> "model", worker |-> job.worker,
                                             params |-> job.params]
                                       ELSE NoResult])

\* mutant: the network is freed after the try block, not in a finally
FitRaisesNoFinally(job, exc) ==
    [job EXCEPT !.status = "error", !.result = [kind |-> "raised", exc |-> exc]]

\* lines 143-155 when the constructor or fit raises: the finally block frees
\* the network and the exception leaves the job
FitRaises(job, exc) ==
    NetworkFree([job EXCEPT !.status = "error",
                            !.result = [kind |-> "raised", exc |-> exc]])

\* lines 143-157: fit returns, the network is freed, the model is returned
\* by the job built with return_model
TrainPartFitted(j) ==
    /\ pc = "gather"
    /\ j \in 1..Len(futures_classifiers)
    /\ futures_classifiers[j].status = "running"
    /\ futures_classifiers' =
         [futures_classifiers EXCEPT ![j] = FitReturns(@)]
    /\ UNCHANGED <<call, busy, replicas, estimator, fits, who_has, model_calls,
                   pc, parts, worker_map, master_worker, params,
                   local_listen_port, worker_addresses, lightgbm_ports,
                   worker_ip_to_port, probes, outcome>>

\* lines 143-155: the constructor or fit raises, the network is freed
TrainPartRaises(j) ==
    /\ pc = "gather"
    /\ j \in 1..Len(futures_classifiers)
    /\ futures_classifiers[j].status = "running"
    /\ \E exc \in FitErrors :
          futures_classifiers' =
             [futures_classifiers EXCEPT ![j] = FitRaises(@, exc)]
    /\ UNCHANGED <<call, busy, replicas, estimator, fits, who_has, model_calls,
                   pc, parts, worker_map, master_worker, params,
                   local_listen_port, worker_addresses, lightgbm_ports,
                   worker_ip_to_port, probes, outcome>>

\* client.gather(futures) of line 278 returns the results once every
\* future has finished
GatherReady(js) == \A j \in 1..Len(js) : js[j].status = "finished"

\* client.gather(futures) raises the exception of a failed future as soon
\* as one future has failed
GatherFailed(js) == {j \in 1..Len(js) : js[j].status = "error"}

\* line 279: [v for v in results if v]
NonEmpty(js) == SelectSeq([j \in 1..Len(js) |-> js[j].result], LAMBDA v : v # NoResult)

\* model.get_params() of line 374 (LGBMModel.get_params of sklearn.py): the
\* hyperparameters the model was constructed with.  A constructor argument
\* that was not passed is returned with its default; the only one the
\* callers of this model set, n_jobs, is set to its default -1.
get_params(model) == model.params

\* self.set_params(**params) of line 374 (LGBMModel.set_params of
\* sklearn.py): every key given is set on the estimator
set_params(own, ps) == Update(own, ps)

\* the named constructor arguments of LGBMModel among the keys of the
\* params; every other key is a keyword argument kept in _other_params
ConstructorArgs == {"n_jobs"}

\* _copy_extra_params(source, dest), lines 384-390: every attribute of the
\* source that is not one of its params is set on dest, among them
\* _other_params, so that dest keeps its named constructor arguments and
\* has the keyword arguments of the source and no others
copy_extra_params(source, dest) ==
    SelectSeq(dest, LAMBDA kv : \/ kv[1] \in ConstructorArgs
                                \/ HasKey(get_params(source), kv[1]))

\* lines 278-280 when every job has finished, and lines 374-377 of _fit:
\* the estimator takes over the params of the returned model and its
\* other attributes
GatherReturn ==
    /\ pc = "gather"
    /\ GatherReady(futures_classifiers)
    /\ pc' = "done"
    /\ IF NonEmpty(futures_classifiers) = <<>>
       THEN /\ outcome' = [kind |-> "raised", value |-> [exc |-> "IndexError"]]
            /\ UNCHANGED <<estimator, fits>>
       ELSE /\ outcome' = [kind |-> "returned",
                           value |-> NonEmpty(futures_classifiers)[1]]
            /\ estimator' =
                  copy_extra_params(
                      NonEmpty(futures_classifiers)[1],
                      set_params(estimator,
                                 get_params(NonEmpty(futures_classifiers)[1])))
            /\ fits' = fits + 1
    /\ UNCHANGED <<call, busy, replicas, who_has, model_calls,
                   parts, worker_map, master_worker, params,
                   local_listen_port, worker_addresses, lightgbm_ports,
                   worker_ip_to_port, probes, futures_classifiers>>

\* line 278 when a job has failed: its exception leaves _train and _fit
GatherRaise ==
    /\ pc = "gather"
    /\ \E j \in GatherFailed(futures_classifiers) :
          outcome' = [kind |-> "raised", value |-> futures_classifiers[j].result]
    /\ pc' = "done"
    /\ UNCHANGED <<call, busy, replicas, estimator, fits, who_has, model_calls,
                   parts, worker_map, master_worker, params,
                   local_listen_port, worker_addresses, lightgbm_ports,
                   worker_ip_to_port, probes, futures_classifiers>>

(***************************************************************************)
(* A further fit of the same estimator                                     *)
(***************************************************************************)
MaxFits == 2

\* the caller calls fit again, with the same arguments, on the estimator a
\* fit has returned: _fit and _train start anew, the estimator is the one
\* the previous fit left
Refit ==
    /\ call.entry = "fit"
    /\ pc = "done" /\ outcome.kind = "returned"
    /\ fits < MaxFits
    /\ pc' = "fit"
    /\ parts' = <<>>
    /\ worker_map' = <<>>
    /\ master_worker' = NoWorker
    /\ params' = <<>>
    /\ local_listen_port' = 0
    /\ worker_addresses' = <<>>
    /\ lightgbm_ports' = {}
    /\ worker_ip_to_port' = <<>>
    /\ probes' = <<>>
    /\ futures_classifiers' = <<>>
    /\ who_has' = <<>>
    /\ outcome' = [kind |-> "none", value |-> None]
    /\ UNCHANGED <<call, busy, replicas, estimator, fits, model_calls>>

(***************************************************************************)
(* _predict_part                                                           *)
(***************************************************************************)
MaxRows == 2

\* mutant: the partition is never taken as empty
IsEmptyNever(data) == FALSE

\* line 286: data.shape[0] == 0
IsEmpty(data) == data.rows = 0

\* lines 286-303: the calls made on the model, none for an empty partition
PredictCalls(data, raw_score, pred_proba, pred_leaf, pred_contrib) ==
    IF IsEmpty(data) THEN <<>>
    ELSE <<[method |-> IF pred_proba THEN "predict_proba" ELSE "predict",
            rows |-> data.rows, raw_score |-> raw_score,
            pred_leaf |-> pred_leaf, pred_contrib |-> pred_contrib]>>

\* lines 286-311: np.array([]) or the rows the model returned, wrapped in
\* a DataFrame or a Series when the partition is a DataFrame
PredictResult(part, data, pred_proba, pred_contrib) ==
    [of |-> IF IsEmpty(data) THEN "np.array([])"
            ELSE IF pred_proba THEN "predict_proba" ELSE "predict",
     rows |-> IF IsEmpty(data) THEN 0 ELSE data.rows,
     type |-> IF part.frame
              THEN IF pred_proba \/ pred_contrib THEN "DataFrame" ELSE "Series"
              ELSE "ndarray"]

\* _predict_part, lines 283-311; part.values of line 284 has the rows of
\* the partition
PredictPart ==
    /\ pc = "predict_part"
    /\ LET data == [frame |-> FALSE, rows |-> call.part.rows]
       IN  /\ model_calls' = PredictCalls(data, call.raw_score, call.pred_proba,
                                          call.pred_leaf, call.pred_contrib)
           /\ outcome' = [kind |-> "returned",
                          value |-> PredictResult(call.part, data, call.pred_proba,
                                                  call.pred_contrib)]
    /\ pc' = "done"
    /\ UNCHANGED <<call, busy, replicas, estimator, fits, who_has,
                   parts, worker_map, master_worker, params,
                   local_listen_port, worker_addresses, lightgbm_ports,
                   worker_ip_to_port, probes, futures_classifiers>>

(***************************************************************************)
(* Initial states: the arguments of the call and the environment           *)
(***************************************************************************)
MaxBusyRun == 2

\* k busy ports from the default port on
Run(k) == DefaultPort..(DefaultPort + k - 1)

StartPorts == {DefaultPort, DefaultPort + 1}

\* the last port a probe from the default port tries
LastDefault == DefaultPort + max_tries - 1

NoCall ==
    [entry |-> None, model_factory |-> None, init_score |-> None,
     data |-> NoGrid, label |-> NoGrid, sample_weight |-> NoGrid,
     group |-> NoGrid, params |-> <<>>, worker_addresses |-> <<>>,
     local_listen_port |-> 0, worker_ip |-> None, ports_to_skip |-> {},
     part |-> [frame |-> FALSE, rows |-> 0], raw_score |-> FALSE,
     pred_proba |-> FALSE, pred_leaf |-> FALSE, pred_contrib |-> FALSE]

\* everything the called function has not touched yet
Untouched ==
    /\ parts = <<>>
    /\ worker_map = <<>>
    /\ master_worker = NoWorker
    /\ params = <<>>
    /\ lightgbm_ports = {}
    /\ worker_ip_to_port = <<>>
    /\ futures_classifiers = <<>>
    /\ who_has = <<>>
    /\ fits = 0
    /\ model_calls = <<>>
    /\ outcome = [kind |-> "none", value |-> None]

\* a call of an estimator's fit
FitCalls ==
    {[NoCall EXCEPT !.entry = "fit", !.model_factory = mf, !.init_score = sc,
                    !.data = <<dr, dc>>, !.label = <<lr>>,
                    !.sample_weight = sw, !.group = gr, !.params = ps] :
        mf \in {"LGBMRegressor", "LGBMRanker"},
        sc \in {None, "init_score"},
        dr \in 1..MaxParts, dc \in 1..2, lr \in 1..MaxParts,
        sw \in {NoGrid} \cup {<<r>> : r \in 1..MaxParts},
        gr \in {NoGrid} \cup {<<r>> : r \in 1..MaxParts},
        ps \in {<<<<"n_jobs", -1>>>>,
                <<<<"n_jobs", -1>>, <<"local_listen_port", DefaultPort + 1>>>>}}

\* the plainest call: one block of data and labels, a regressor
PlainCall(c) ==
    /\ c.model_factory = "LGBMRegressor" /\ c.init_score = None
    /\ c.data = <<1, 1>> /\ c.label = <<1>>
    /\ c.sample_weight = NoGrid /\ c.group = NoGrid

\* the busy ports of the hosts during a fit: none, and for the plainest
\* call also every port a probe can try
FitBusy(c) ==
    {[h \in Hosts |-> Run(0)]}
    \cup (IF PlainCall(c)
          THEN {[h \in Hosts |-> Run(max_tries + 1)]}
          ELSE {})

Init ==
    /\ call \in {c \in FitCalls : c.init_score # None => is_ranker(c.model_factory)}
    /\ busy \in FitBusy(call)
    /\ replicas = 1
    /\ estimator = call.params
    /\ pc = "fit"
    /\ local_listen_port = 0
    /\ worker_addresses = <<>>
    /\ probes = <<>>
    /\ Untouched

\* a fit of a regressor on data and labels of as many partitions each, on
\* a cluster that keeps up to MaxOwners copies of a partition and whose
\* ports are free
InitPlan ==
    /\ call \in {c \in FitCalls :
                    /\ c.model_factory = "LGBMRegressor" /\ c.init_score = None
                    /\ c.data[2] = 1 /\ Blocks(c.data) = Blocks(c.label)
                    /\ c.sample_weight = NoGrid /\ c.group = NoGrid
                    /\ ~HasKey(c.params, "local_listen_port")}
    /\ busy = [h \in Hosts |-> Run(0)]
    /\ replicas \in 1..MaxOwners
    /\ estimator = call.params
    /\ pc = "fit"
    /\ local_listen_port = 0
    /\ worker_addresses = <<>>
    /\ probes = <<>>
    /\ Untouched

\* what the caller may have set for the tree learner: nothing, or one of
\* the aliases with a value that is allowed, allowed in another case, or
\* not allowed
TreeLearnerParams ==
    {<<>>} \cup {<<<<k, v>>>> : k \in ConfigAliases("tree_learner"),
                                v \in {"voting_parallel", "Voting_Parallel", "bogus"}}

\* what the caller may have set for the threads: nothing, one alias, or
\* num_threads and an alias
NumThreadsParams ==
    {<<>>, <<<<"n_jobs", -1>>>>, <<<<"num_threads", 16>>, <<"nthread", 32>>>>}
    \cup {<<<<k, 16>>>> : k \in ConfigAliases("num_threads") \ {"n_jobs"}}

\* the plainest fit, of an estimator constructed with these params
InitParams ==
    /\ call \in {[NoCall EXCEPT !.entry = "fit",
                                !.model_factory = "LGBMRegressor",
                                !.data = <<1, 1>>, !.label = <<1>>,
                                !.params = tl \o nt] :
                    tl \in TreeLearnerParams, nt \in NumThreadsParams}
    /\ busy = [h \in Hosts |-> Run(0)]
    /\ replicas = 1
    /\ estimator = call.params
    /\ pc = "fit"
    /\ local_listen_port = 0
    /\ worker_addresses = <<>>
    /\ probes = <<>>
    /\ Untouched

\* a call of _predict_part on one partition, an array or a DataFrame
InitPredict ==
    /\ call \in {[NoCall EXCEPT !.entry = "_predict_part",
                                !.part = [frame |-> fr, rows |-> r],
                                !.raw_score = rs, !.pred_proba = pp,
                                !.pred_leaf = pl, !.pred_contrib = pcb] :
                    fr \in BOOLEAN, r \in 0..MaxRows, rs \in BOOLEAN,
                    pp \in BOOLEAN, pl \in BOOLEAN, pcb \in BOOLEAN}
    /\ busy = [h \in Hosts |-> Run(0)]
    /\ replicas = 1
    /\ estimator = <<>>
    /\ pc = "predict_part"
    /\ local_listen_port = 0
    /\ worker_addresses = <<>>
    /\ probes = <<>>
    /\ Untouched

\* the plainest fit, of an estimator constructed with or without
\* local_listen_port, on hosts whose first ports are busy
InitRefit ==
    /\ call \in {c \in FitCalls : PlainCall(c)}
    /\ busy \in {[h \in Hosts |-> Run(k)] : k \in 0..MaxBusyRun}
    /\ replicas = 1
    /\ estimator = call.params
    /\ pc = "fit"
    /\ local_listen_port = 0
    /\ worker_addresses = <<>>
    /\ probes = <<>>
    /\ Untouched

\* a fit of a regressor or a ranker on collections of as many partitions
\* each
InitWait ==
    /\ call \in {c \in FitCalls :
                    /\ c.init_score = None /\ c.data[2] = 1
                    /\ \A g \in {c.label, c.sample_weight, c.group} \ {NoGrid} :
                          Blocks(g) = Blocks(c.data)
                    /\ ~HasKey(c.params, "local_listen_port")}
    /\ busy = [h \in Hosts |-> Run(0)]
    /\ replicas = 1
    /\ estimator = call.params
    /\ pc = "fit"
    /\ local_listen_port = 0
    /\ worker_addresses = <<>>
    /\ probes = <<>>
    /\ Untouched

\* a direct call of _find_ports_for_workers
InitPorts ==
    /\ call \in {[NoCall EXCEPT !.entry = "_find_ports_for_workers",
                                !.worker_addresses = wa,
                                !.local_listen_port = lp] :
                    wa \in Injections(ClusterWorkers, 0, Cardinality(ClusterWorkers)),
                    lp \in StartPorts}
    /\ busy \in {[h \in Hosts |-> IF h = "h1" THEN b1 ELSE Run(k2)] :
                    b1 \in {Run(k) : k \in 0..MaxBusyRun}
                           \cup {Run(max_tries + 1) \ {DefaultPort + 1}},
                    k2 \in 0..MaxBusyRun}
    /\ replicas = 1
    /\ estimator = <<>>
    /\ pc = "ports_loop"
    /\ local_listen_port = call.local_listen_port
    /\ worker_addresses = call.worker_addresses
    /\ probes = <<>>
    /\ Untouched

\* a direct call of _find_open_port
InitProbe ==
    /\ call \in {[NoCall EXCEPT !.entry = "_find_open_port",
                                !.worker_ip = "h1",
                                !.local_listen_port = lp,
                                !.ports_to_skip = sk] :
                    lp \in StartPorts,
                    sk \in SUBSET (Run(MaxBusyRun) \cup {LastDefault})}
    /\ busy \in {[h \in Hosts |-> IF h = "h1" THEN b ELSE {}] :
                    b \in {Run(k) : k \in 0..MaxBusyRun}
                          \cup {Run(max_tries + e) \ holes :
                                   e \in 0..1,
                                   holes \in SUBSET {DefaultPort + 1, LastDefault}}}
    /\ replicas = 1
    /\ estimator = <<>>
    /\ pc = "probe"
    /\ local_listen_port = call.local_listen_port
    /\ worker_addresses = <<>>
    /\ probes = <<NewProbe(NoWorker, call.worker_ip, call.local_listen_port,
                           call.ports_to_skip)>>
    /\ Untouched

(***************************************************************************)
(* Next-state relations and specifications                                 *)
(***************************************************************************)
NextProbe ==
    \/ \E n \in 1..Len(probes) : ProbeSkip(n)
    \/ \E n \in 1..Len(probes) : ProbeBound(n)
    \/ \E n \in 1..Len(probes) : ProbeOSError(n)
    \/ \E n \in 1..Len(probes) : ProbeExit(n)

NextPorts ==
    \/ NextProbe
    \/ FindPortsSubmit
    \/ FindPortsResult
    \/ FindPortsRaise
    \/ FindPortsReturn

Next ==
    \/ NextPorts
    \/ TrainStart
    \/ \E n \in 1..Len(parts) : PartFinished(n)
    \/ \E n \in 1..Len(parts) : PartError(n)
    \/ TrainPlan
    \/ SubmitJobs
    \/ \E j \in 1..Len(futures_classifiers), w \in ClusterWorkers : TrainPartStart(j, w)
    \/ \E j \in 1..Len(futures_classifiers) : TrainPartFitted(j)
    \/ \E j \in 1..Len(futures_classifiers) : TrainPartRaises(j)
    \/ GatherReturn
    \/ GatherRaise

\* a round up to the submission of its jobs, when every partition
\* materializes and every probe finds a port
NextPlan ==
    \/ TrainStart
    \/ \E n \in 1..Len(parts) : PartFinished(n)
    \/ TrainPlan
    \/ FindPortsSubmit
    \/ \E n \in 1..Len(probes) : ProbeSkip(n)
    \/ \E n \in 1..Len(probes) : ProbeBound(n)
    \/ \E n \in 1..Len(probes) : ProbeExit(n)
    \/ FindPortsResult
    \/ FindPortsReturn
    \/ SubmitJobs

\* a round on one partition, when the partition materializes and the
\* probe finds a port
NextParams ==
    \/ TrainStart
    \/ \E n \in 1..Len(parts) : PartFinished(n)
    \/ TrainPlan
    \/ FindPortsSubmit
    \/ \E n \in 1..Len(probes) : ProbeBound(n)
    \/ \E n \in 1..Len(probes) : ProbeExit(n)
    \/ FindPortsResult
    \/ FindPortsReturn
    \/ SubmitJobs
    \/ \E j \in 1..Len(futures_classifiers), w \in ClusterWorkers : TrainPartStart(j, w)
    \/ \E j \in 1..Len(futures_classifiers) : TrainPartFitted(j)
    \/ \E j \in 1..Len(futures_classifiers) : TrainPartRaises(j)
    \/ GatherReturn
    \/ GatherRaise

NextPredict == PredictPart

\* fits of one estimator on one partition, one after the other
NextRefit ==
    \/ NextParams
    \/ \E n \in 1..Len(probes) : ProbeOSError(n)
    \/ Refit

\* a round up to the end of its planning, when partitions may fail
NextWait ==
    \/ TrainStart
    \/ \E n \in 1..Len(parts) : PartFinished(n)
    \/ \E n \in 1..Len(parts) : PartError(n)
    \/ TrainPlan

Spec == Init /\ [][Next]_vars
\* the client goes on as soon as wait(parts) can return; the cluster may
\* take any time, or for ever, to settle a partition
SpecWait == InitWait /\ [][NextWait]_vars /\ WF_vars(TrainPlan)
SpecRefit == InitRefit /\ [][NextRefit]_vars
SpecPredict == InitPredict /\ [][NextPredict]_vars
SpecParams == InitParams /\ [][NextParams]_vars
SpecPlan == InitPlan /\ [][NextPlan]_vars
SpecPorts == InitPorts /\ [][NextPorts]_vars
SpecProbe == InitProbe /\ [][NextProbe]_vars

(***************************************************************************)
(* Properties of _find_open_port (SpecProbe)                               *)
(***************************************************************************)
\* the ports start_port..start_port+999 of a probe
Tried(p) == p.local_listen_port..(p.local_listen_port + 999)

\* the port is in the avoid-set or its bind fails
Unusable(p, q) == q \in p.ports_to_skip \/ ~bind(p.worker_ip, q)

\* C9: whenever _find_open_port returns, the returned port is the lowest
\* port of start_port..start_port+999 that is not in the avoid-set and on
\* which the bind succeeded: it is never in the avoid-set and never a port
\* whose bind failed.
C9_ReturnsLowestUsablePort ==
    \A n \in 1..Len(probes) :
        probes[n].status = "returned" =>
            /\ probes[n].result \in Tried(probes[n])
            /\ probes[n].result \notin probes[n].ports_to_skip
            /\ probes[n].bound = probes[n].result
            /\ bind(probes[n].worker_ip, probes[n].result)
            /\ \A q \in probes[n].local_listen_port..(probes[n].result - 1) :
                   Unusable(probes[n], q)

\* C9 witness: a probe returned a port above a skipped port and above a
\* port whose bind failed.
C9_Witness ==
    \E n \in 1..Len(probes) :
        /\ probes[n].status = "returned"
        /\ \E q \in probes[n].local_listen_port..(probes[n].result - 1) :
               q \in probes[n].ports_to_skip
        /\ \E q \in probes[n].local_listen_port..(probes[n].result - 1) :
               q \notin probes[n].ports_to_skip /\ ~bind(probes[n].worker_ip, q)

\* C10: _find_open_port fails exactly when each of the 1000 ports
\* start_port..start_port+999 is in the avoid-set or not bindable; the
\* error names the host and the range start_port..start_port+999; no port
\* beyond start_port+999 is ever probed.
C10_FailsExactlyWhenExhausted ==
    \A n \in 1..Len(probes) :
        /\ probes[n].status \in {"returned", "raised"} =>
              (probes[n].status = "raised"
                  <=> \A q \in Tried(probes[n]) : Unusable(probes[n], q))
        /\ probes[n].status = "raised" =>
              /\ probes[n].result.host = probes[n].worker_ip
              /\ probes[n].result.first = probes[n].local_listen_port
              /\ probes[n].result.last = probes[n].local_listen_port + 999
        /\ probes[n].bound <= probes[n].local_listen_port + 999
        /\ probes[n].out_port <= probes[n].local_listen_port + 999

\* C10 witness: a probe failed although a port of its range was free: the
\* port was in the avoid-set, and skipping it used up one of the attempts.
C10_Witness ==
    \E n \in 1..Len(probes) :
        /\ probes[n].status = "raised"
        /\ \E q \in Tried(probes[n]) :
               q \in probes[n].ports_to_skip /\ bind(probes[n].worker_ip, q)
        /\ bind(probes[n].worker_ip, probes[n].local_listen_port + 1000)

(***************************************************************************)
(* Properties of _find_ports_for_workers (SpecPorts)                       *)
(***************************************************************************)
\* the call of _find_ports_for_workers has returned its mapping
PortsReturned ==
    /\ call.entry = "_find_ports_for_workers"
    /\ pc = "done" /\ outcome.kind = "returned"

\* C1: in the mapping _find_ports_for_workers builds and returns, no two
\* distinct worker addresses on the same host have the same port, for any
\* list of addresses, start port and busy ports.
C1_NoSharedPortOnOneHost ==
    \A a, b \in 1..Len(worker_ip_to_port) :
        (/\ a # b
         /\ hostname(worker_ip_to_port[a][1]) = hostname(worker_ip_to_port[b][1]))
        => worker_ip_to_port[a][2] # worker_ip_to_port[b][2]

\* C1 witness: a mapping was returned that holds both workers of host h1.
C1_Witness ==
    /\ PortsReturned
    /\ HasKey(outcome.value, W1) /\ HasKey(outcome.value, W2)

\* the start port can be bound on both hosts
StartFreeEverywhere == \A h \in Hosts : bind(h, call.local_listen_port)

\* C7 as claimed: for workers [w1 on h1, w2 on h1, w3 on h2] and a start
\* port free on both hosts, the returned mapping gives w3 the port of w1 or
\* of w2.  The call is deterministic for a given environment, so what it
\* can return is what it returns.
C7_OtherHostReusesPort ==
    (/\ PortsReturned
     /\ call.worker_addresses = <<W1, W2, W3>>
     /\ StartFreeEverywhere)
    => Lookup(outcome.value, W3) \in
          {Lookup(outcome.value, W1), Lookup(outcome.value, W2)}

\* C7 as amended: the avoid-set is shared by all hosts, so a worker is never
\* given a port already given to a worker of another host in the round.
C7_NoReuseAcrossHosts ==
    \A a, b \in 1..Len(worker_ip_to_port) :
        (/\ a # b
         /\ hostname(worker_ip_to_port[a][1]) # hostname(worker_ip_to_port[b][1]))
        => worker_ip_to_port[a][2] # worker_ip_to_port[b][2]

\* C7 witness: [w1, w2, w3] with the start port free on both hosts: w3 was
\* given a port above the start port although the start port is free on h2.
C7_Witness ==
    /\ PortsReturned
    /\ call.worker_addresses = <<W1, W2, W3>>
    /\ StartFreeEverywhere
    /\ Lookup(outcome.value, W3) > call.local_listen_port

\* C8: port negotiation is sequential: at most one probe is outstanding,
\* the k-th probe is that of the k-th worker address, and its avoid-set is
\* exactly the set of ports the probes 1..k-1 returned.
C8_SequentialNegotiation ==
    /\ Cardinality({n \in 1..Len(probes) : probes[n].status = "loop"}) <= 1
    /\ Len(probes) <= Len(worker_addresses)
    /\ \A k \in 1..Len(probes) :
          /\ probes[k].worker = worker_addresses[k]
          /\ \A n \in 1..(k - 1) : probes[n].status = "returned"
          /\ probes[k].ports_to_skip = {probes[n].result : n \in 1..(k - 1)}

\* C8 witness: the third probe of a round is running, with the two ports
\* returned before it as its avoid-set.
C8_Witness ==
    /\ Len(probes) = 3
    /\ probes[3].status = "loop"
    /\ Cardinality(probes[3].ports_to_skip) = 2

(***************************************************************************)
(* Properties of the training round (Spec)                                 *)
(***************************************************************************)
Jobs == 1..Len(futures_classifiers)

\* the job has passed params.update(network_params)
Configured(job) ==
    \/ job.status \in {"running", "finished"}
    \/ job.status = "error" /\ job.result.exc \in FitErrors

\* the host and port the job tells LightGBM to listen on
Endpoint(job) == <<hostname(job.runs_on), Lookup(job.params, "local_listen_port")>>

\* C2: every training job runs on the worker it was built for: its own
\* address is found in the mapping, its local_listen_port is the port
\* negotiated for that worker, and no two jobs of the round configure the
\* same (host, port) endpoint.
C2_JobsRunOnTheirWorker ==
    /\ \A j \in Jobs :
          futures_classifiers[j].status # "pending" =>
              /\ futures_classifiers[j].runs_on = futures_classifiers[j].worker
              /\ Configured(futures_classifiers[j])
              /\ Lookup(futures_classifiers[j].params, "local_listen_port")
                    = Lookup(worker_ip_to_port, futures_classifiers[j].worker)
    /\ \A j, k \in Jobs :
          (/\ j # k
           /\ Configured(futures_classifiers[j])
           /\ Configured(futures_classifiers[k]))
          => Endpoint(futures_classifiers[j]) # Endpoint(futures_classifiers[k])

\* C3: a ranking fit without a group collection fails before any port
\* probe and before any training job is submitted.
C3_RankerWithoutGroupFailsFirst ==
    (/\ call.entry = "fit"
     /\ is_ranker(call.model_factory)
     /\ call.group = NoGrid)
    => /\ probes = <<>>
       /\ futures_classifiers = <<>>
       /\ pc = "done" => outcome.kind = "raised"

\* the collections supplied to fit are split into different numbers of
\* partitions
PartitionMismatch(c) ==
    \E g, h \in {c.data, c.label, c.sample_weight, c.group} \ {NoGrid} :
        Blocks(g) # Blocks(h)

\* C4: when the supplied collections have different numbers of partitions,
\* _train fails and dispatches nothing: no tuple is built from a truncated
\* subset, no probe and no training job is submitted.
C4_MismatchDispatchesNothing ==
    (call.entry = "fit" /\ PartitionMismatch(call))
    => /\ parts = <<>>
       /\ probes = <<>>
       /\ futures_classifiers = <<>>
       /\ pc = "done" => outcome.kind = "raised"

\* every job that has started runs on the worker it was built for
OnOwnWorkers ==
    \A j \in Jobs :
        futures_classifiers[j].status # "pending" =>
            futures_classifiers[j].runs_on = futures_classifiers[j].worker

\* C5: when a training job raises, the round reports the error only after
\* every submitted job of the round has settled (finished or errored), and
\* returns no model.  Stated for the rounds whose jobs all run on their own
\* workers, so that a failure seen here is a failure of fit itself.
C5_ErrorOnlyAfterAllSettled ==
    (/\ pc = "done" /\ futures_classifiers # <<>>
     /\ \E j \in Jobs : futures_classifiers[j].status = "error"
     /\ OnOwnWorkers)
    => /\ outcome.kind = "raised"
       /\ \A j \in Jobs : futures_classifiers[j].status \in {"finished", "error"}

\* C6: in every round that dispatches jobs, exactly one submitted job has
\* return_model set, whatever the number of active workers.
C6_ExactlyOneMaster ==
    futures_classifiers # <<>> =>
        Cardinality({j \in Jobs : futures_classifiers[j].return_model}) = 1

\* C6 witness: two jobs were submitted, for two workers of one host, and
\* the master is the second worker of the cluster.
C6_Witness ==
    /\ Len(futures_classifiers) = 2
    /\ futures_classifiers[1].worker = W2
    /\ futures_classifiers[2].worker = W1
    /\ futures_classifiers[1].return_model

(***************************************************************************)
(* Properties of a round whose partitions fail (Spec)                      *)
(***************************************************************************)
\* C11: when a partition fails to materialize, the round ends with that
\* partition's failure as the error the caller of fit gets, and nothing was
\* dispatched: no port probe and no training job.
C11_PartitionFailureSurfaced ==
    (pc = "done" /\ \E n \in 1..Len(parts) : parts[n].status = "error")
    => /\ outcome.kind = "raised"
       /\ \E n \in 1..Len(parts) :
             /\ parts[n].status = "error"
             /\ outcome.value.exc = parts[n].exception
       /\ probes = <<>>
       /\ futures_classifiers = <<>>

(***************************************************************************)
(* Properties of the training jobs (Spec)                                  *)
(***************************************************************************)
\* the job entered the try block of _train_part
StartedFitting(job) ==
    \/ job.status \in {"running", "finished"}
    \/ job.status = "error" /\ job.result.exc \in FitErrors

\* C12: a job that started fitting has not freed the network while it
\* fits and has freed it exactly once when it completes, whether fit
\* returned or the constructor or fit raised; a job that raised reports the
\* error of the constructor or of fit.
C12_NetworkFreedOnce ==
    \A j \in Jobs :
        LET job == futures_classifiers[j]
        IN  StartedFitting(job) =>
              /\ job.status = "running" => job.network_free = 0
              /\ job.status \in {"finished", "error"} => job.network_free = 1
              /\ job.status = "error" => /\ job.result.kind = "raised"
                                         /\ job.result.exc \in FitErrors

\* C12 witness: of two jobs, one completed with the error of fit and one
\* with a fitted model, each having freed the network once.
C12_Witness ==
    /\ Len(futures_classifiers) = 2
    /\ futures_classifiers[1].status = "finished"
    /\ futures_classifiers[1].network_free = 1
    /\ futures_classifiers[2].status = "error"
    /\ futures_classifiers[2].result.exc = "FitError"
    /\ futures_classifiers[2].network_free = 1

(***************************************************************************)
(* Properties of the assignment of partitions to jobs (SpecPlan)           *)
(***************************************************************************)
\* the workers client.who_has reported as holding the part with this key
Holders(key) ==
    UNION {{who_has[m][2][i] : i \in 1..Len(who_has[m][2])} :
              m \in {k \in 1..Len(who_has) : who_has[k][1] = key}}

\* the workers reported first for at least one part
ActiveWorkers == {who_has[m][2][1] : m \in 1..Len(who_has)}

\* the places <<job, position>> at which a job carries the part
Carriers(key) ==
    {jp \in Jobs \X (1..Len(parts)) :
        /\ jp[2] <= Len(futures_classifiers[jp[1]].list_of_parts)
        /\ futures_classifiers[jp[1]].list_of_parts[jp[2]] = key}

\* C13: once the jobs are submitted, every active worker (the first
\* reported owner of at least one part) has exactly one job and no other
\* worker has any; every materialized part is carried by exactly one job,
\* once, and the worker of that job is one of the workers reported as
\* holding the part.
C13_OneJobPerActiveWorker ==
    futures_classifiers # <<>> =>
      /\ \A w \in ClusterWorkers :
            Cardinality({j \in Jobs : futures_classifiers[j].worker = w})
                = IF w \in ActiveWorkers THEN 1 ELSE 0
      /\ \A n \in 1..Len(parts) :
            parts[n].status = "finished" =>
              /\ Cardinality(Carriers(parts[n].key)) = 1
              /\ \A jp \in Carriers(parts[n].key) :
                    futures_classifiers[jp[1]].worker \in Holders(parts[n].key)

\* C13 witness: two parts, each held by two workers, W2 holding both but
\* reported first for neither: the two jobs are those of W1 and W3.
C13_Witness ==
    /\ Len(futures_classifiers) = 2
    /\ Len(who_has) = 2
    /\ who_has[1][2] = <<W1, W2>>
    /\ who_has[2][2] = <<W3, W2>>

(***************************************************************************)
(* Properties of the configuration of the jobs (Spec)                      *)
(***************************************************************************)
\* host:port of a worker of worker_map, with the port the round gave it
ActiveEntry(n) ==
    HostPort(worker_map[n][1], Lookup(worker_ip_to_port, worker_map[n][1]))

\* the entries of the active workers in the order of worker_map, joined by
\* commas, for one, two and three active workers
ActiveMachines ==
    CASE Len(worker_map) = 1 -> ActiveEntry(1)
      [] Len(worker_map) = 2 -> ActiveEntry(1) \o "," \o ActiveEntry(2)
      [] Len(worker_map) = 3 ->
            ActiveEntry(1) \o "," \o ActiveEntry(2) \o "," \o ActiveEntry(3)

\* C14: every job that has configured its network has the same topology:
\* machines is the comma-joined host:port list of exactly the active
\* workers in the order of the mapping, num_machines is their number, and
\* local_listen_port is the port the mapping has for the job's own worker.
C14_SameTopologyOwnPort ==
    \A j \in Jobs :
        LET job == futures_classifiers[j]
        IN  Configured(job) =>
              /\ Lookup(job.params, "machines") = ActiveMachines
              /\ Lookup(job.params, "num_machines") = Len(worker_map)
              /\ Lookup(job.params, "local_listen_port")
                    = Lookup(worker_ip_to_port, job.worker)

\* the topology half of C14 alone
TopologyShared ==
    \A j \in Jobs :
        LET job == futures_classifiers[j]
        IN  Configured(job) =>
              /\ Lookup(job.params, "machines") = ActiveMachines
              /\ Lookup(job.params, "num_machines") = Len(worker_map)
              /\ job.runs_on = job.worker =>
                    Lookup(job.params, "local_listen_port")
                        = Lookup(worker_ip_to_port, job.worker)

(***************************************************************************)
(* Properties of the value a round returns (Spec)                          *)
(***************************************************************************)
\* C15: when every job of the round has succeeded, the round returns one
\* model, the one fitted by the job of the master worker; the jobs of the
\* other workers returned nothing, and exactly one result is left once the
\* empty ones are discarded.
C15_OnlyMasterModelReturned ==
    (/\ pc = "done" /\ futures_classifiers # <<>>
     /\ \A j \in Jobs : futures_classifiers[j].status = "finished")
    => /\ outcome.kind = "returned"
       /\ outcome.value.kind = "model"
       /\ outcome.value.worker = master_worker
       /\ \A j \in Jobs :
             futures_classifiers[j].worker # master_worker =>
                 futures_classifiers[j].result = NoResult
       /\ Len(NonEmpty(futures_classifiers)) = 1

\* C15 witness: a round of two jobs that both succeeded has returned, its
\* master being the second worker of the cluster.
C15_Witness ==
    /\ pc = "done" /\ outcome.kind = "returned"
    /\ Len(futures_classifiers) = 2
    /\ \A j \in Jobs : futures_classifiers[j].status = "finished"
    /\ master_worker = W2
    /\ outcome.value.worker = W2

(***************************************************************************)
(* Properties of the params forwarded to the jobs (SpecParams)             *)
(***************************************************************************)
\* the values the caller set under the aliases of tree_learner
CallerTreeLearner == FirstSet(call.params, ConfigAliases("tree_learner"))

\* a value that is not an allowed tree learner, whatever its case
Rejected(v) == Lower(v) \notin allowed_tree_learners

\* C16: when the caller set no tree learner or one that is not allowed
\* (case-insensitive), the params of every job have tree_learner = "data"
\* and no alias of tree_learner in them carries a value that is not
\* allowed; when the caller set an allowed value, every job has it under
\* the caller's key, unchanged; and every round that ends has dispatched
\* its jobs.
C16_TreeLearnerResolved ==
    /\ \A j \in Jobs :
          LET ps == futures_classifiers[j].params
          IN  IF CallerTreeLearner = {} \/ \E v \in CallerTreeLearner : Rejected(v)
              THEN /\ HasKey(ps, "tree_learner")
                   /\ Lookup(ps, "tree_learner") = "data"
                   /\ \A a \in ConfigAliases("tree_learner") :
                         HasKey(ps, a) => ~Rejected(Lookup(ps, a))
              ELSE \A a \in ConfigAliases("tree_learner") :
                     /\ HasKey(ps, a) <=> HasKey(call.params, a)
                     /\ HasKey(ps, a) => Lookup(ps, a) = Lookup(call.params, a)
    /\ pc = "done" => futures_classifiers # <<>>

\* C16 apart from the rejected value left under its alias
TreeLearnerIsData ==
    /\ \A j \in Jobs :
          LET ps == futures_classifiers[j].params
          IN  IF CallerTreeLearner = {} \/ \E v \in CallerTreeLearner : Rejected(v)
              THEN /\ HasKey(ps, "tree_learner")
                   /\ Lookup(ps, "tree_learner") = "data"
                   /\ \A a \in ConfigAliases("tree_learner") \ {"tree_learner"} :
                         HasKey(ps, a) => Lookup(ps, a) = Lookup(call.params, a)
              ELSE \A a \in ConfigAliases("tree_learner") :
                     /\ HasKey(ps, a) <=> HasKey(call.params, a)
                     /\ HasKey(ps, a) => Lookup(ps, a) = Lookup(call.params, a)
    /\ pc = "done" => futures_classifiers # <<>>

\* C17: no value the caller set under num_threads or one of its aliases
\* reaches a job: in the params of every submitted job the only key of
\* that family is num_threads, and its value is the number of cores the
\* cluster reports for the worker the job was built for.
C17_OnlyWorkerCores ==
    \A j \in Jobs :
        LET job == futures_classifiers[j]
        IN  /\ \A a \in ConfigAliases("num_threads") \ {"num_threads"} :
                  ~HasKey(job.params, a)
            /\ HasKey(job.params, "num_threads")
            /\ Lookup(job.params, "num_threads") = Lookup(worker_ncores, job.worker)
            /\ Cardinality({n \in 1..Len(job.params) :
                                job.params[n][1] = "num_threads"}) = 1

\* C17 witness: the caller set num_threads = 16 and nthread = 32; the job
\* of the worker with 4 cores has configured its network and runs with
\* num_threads = 4.
C17_Witness ==
    /\ HasKey(call.params, "num_threads") /\ HasKey(call.params, "nthread")
    /\ Len(futures_classifiers) = 1
    /\ futures_classifiers[1].worker = W2
    /\ futures_classifiers[1].status = "running"
    /\ Lookup(futures_classifiers[1].params, "num_threads") = 4

(***************************************************************************)
(* Properties of _predict_part (SpecPredict)                               *)
(***************************************************************************)
\* C18: on a partition of zero rows _predict_part returns an empty result
\* and calls neither predict nor predict_proba on the model, whatever the
\* flags; on a partition with rows it calls exactly one of them, once, and
\* that is predict_proba exactly when pred_proba is set.
C18_EmptyPartitionSkipsModel ==
    (call.entry = "_predict_part" /\ pc = "done") =>
        IF call.part.rows = 0
        THEN /\ model_calls = <<>>
             /\ outcome.kind = "returned"
             /\ outcome.value.rows = 0
             /\ outcome.value.of = "np.array([])"
        ELSE /\ Len(model_calls) = 1
             /\ model_calls[1].method =
                   IF call.pred_proba THEN "predict_proba" ELSE "predict"
             /\ model_calls[1].rows = call.part.rows
             /\ outcome.value.of = model_calls[1].method

\* C18 witness: _predict_part has returned for a DataFrame partition of
\* zero rows with every flag set.
C18_Witness ==
    /\ call.entry = "_predict_part" /\ pc = "done"
    /\ call.part.rows = 0 /\ call.part.frame
    /\ call.raw_score /\ call.pred_proba /\ call.pred_leaf /\ call.pred_contrib
    /\ model_calls = <<>>

(***************************************************************************)
(* Properties of the arguments of fit (Spec)                               *)
(***************************************************************************)
\* every row of the list comes from the collection of this name
AllFrom(blocks, name) == \A n \in 1..Len(blocks) : blocks[n][1] = name

\* C19: for each of the four shapes of tuples, a ranking job passes as
\* group the group parts, never label or weight parts, and a job of either
\* kind passes a weight block exactly when the tuples include a weight
\* part.
C19_GroupAndWeightBlocks ==
    \A j \in Jobs :
        LET job == futures_classifiers[j]
        IN  Configured(job) =>
              /\ is_ranker(call.model_factory) =>
                    /\ job.fit_args.group # <<>>
                    /\ AllFrom(job.fit_args.group, "group")
              /\ job.fit_args.weight # <<>> <=> call.sample_weight # NoGrid
              /\ AllFrom(job.fit_args.weight, "weight")

\* C19 for the shapes of tuples that end with the parts the job takes as
\* last: a ranker with a group, a non-ranker without
GroupLastWhenRanker ==
    \A j \in Jobs :
        LET job == futures_classifiers[j]
        IN  (/\ Configured(job)
             /\ is_ranker(call.model_factory) <=> call.group # NoGrid)
            => /\ is_ranker(call.model_factory) =>
                     /\ job.fit_args.group # <<>>
                     /\ AllFrom(job.fit_args.group, "group")
               /\ job.fit_args.weight # <<>> <=> call.sample_weight # NoGrid
               /\ AllFrom(job.fit_args.weight, "weight")

(***************************************************************************)
(* Properties of a further fit of the same estimator (SpecRefit)           *)
(***************************************************************************)
\* the port the caller configured the estimator with, 12400 if none
ConfiguredPort == Get(call.params, "local_listen_port", DefaultPort)

\* the client is past the resolution of local_listen_port of the round
Negotiating == pc \in {"ports_loop", "ports_wait", "submit", "gather"}

\* C20: once a fit of the estimator has returned, the params of the
\* estimator hold no machines, num_machines or num_threads and no
\* local_listen_port other than the one the caller configured, and the
\* next fit starts its port negotiation from the port the caller
\* configured (12400 if never set).
C20_NothingOutlivesTheRound ==
    fits >= 1 =>
      /\ ~HasKey(estimator, "machines")
      /\ ~HasKey(estimator, "num_machines")
      /\ ~HasKey(estimator, "num_threads")
      /\ HasKey(estimator, "local_listen_port") =>
            /\ HasKey(call.params, "local_listen_port")
            /\ Lookup(estimator, "local_listen_port") = ConfiguredPort
      /\ Negotiating => local_listen_port = ConfiguredPort

\* the start port half of C20 alone
RefitStartsFromConfiguredPort ==
    (fits >= 1 /\ Negotiating) => local_listen_port = ConfiguredPort

(***************************************************************************)
(* Properties of the wait for the partitions (SpecWait)                    *)
(***************************************************************************)
SomePartFailed == \E n \in 1..Len(parts) : parts[n].status = "error"

SomePartPending == \E n \in 1..Len(parts) : parts[n].status = "pending"

\* C21: once a partition has failed, the round ends with a failure
\* without waiting for the partitions that are still pending: it ends
\* even if those never settle.
C21_FailFastOnPartitionError ==
    SomePartFailed ~> (pc = "done")

\* what the round does instead: it ends on a failed partition only when no
\* partition is pending any more
EndsOnlyWhenAllSettled ==
    (pc = "done" /\ SomePartFailed) => ~SomePartPending

(***************************************************************************)
(* Properties of the alignment of the partitions (Spec)                    *)
(***************************************************************************)
\* the collection a block or a row comes from
Collection(x) == x[1]

\* the partition of its collection a block or a row comes from
Partition(x) == x[2]

\* the n-th tuple is made of the n-th part of the data, of the labels and
\* of the weights and groups supplied, in this order
TupleAligned(n) ==
    LET tuple == parts[n].tuple
        names == <<"data", "label">>
                 \o (IF call.sample_weight # NoGrid THEN <<"weight">> ELSE <<>>)
                 \o (IF call.group # NoGrid THEN <<"group">> ELSE <<>>)
    IN  /\ Len(tuple) = Len(names)
        /\ \A k \in 1..Len(tuple) :
              /\ Collection(tuple[k]) = names[k]
              /\ Partition(tuple[k]) = n

\* row r of the rows passed to fit comes from the same partition and the
\* same row of it as row r of the data
RowsAligned(data, rows) ==
    /\ Len(rows) = Len(data)
    /\ \A r \in 1..Len(rows) :
          /\ Partition(rows[r]) = Partition(data[r])
          /\ rows[r][3] = data[r][3]

\* the partitions of the rows, in the order of the rows
PartitionsOf(rows) ==
    LET first == {r \in 1..Len(rows) : rows[r][3] = 1}
    IN  [n \in 1..Cardinality(first) |->
            Partition(rows[CHOOSE r \in first :
                              Cardinality({q \in first : q <= r}) = n])]

\* C22: every tuple pairs the i-th part of the data with the i-th part of
\* the labels and of the weights and groups supplied; in every job the rows
\* of the data passed to fit are those of the job's partitions in the order
\* of its list, and row r of the labels and of the weights and groups
\* passed comes from the same partition and the same row as row r of the
\* data.
C22_PartitionsStayAligned ==
    /\ \A n \in 1..Len(parts) : TupleAligned(n)
    /\ \A j \in Jobs :
          LET job == futures_classifiers[j]
          IN  Configured(job) =>
                /\ PartitionsOf(job.fit_args.data) = job.list_of_parts
                /\ Collection(job.fit_args.data[1]) = "data"
                /\ RowsAligned(job.fit_args.data, job.fit_args.label)
                /\ job.fit_args.weight # <<>> =>
                      RowsAligned(job.fit_args.data, job.fit_args.weight)
                /\ job.fit_args.group # <<>> =>
                      RowsAligned(job.fit_args.data, job.fit_args.group)

\* C22 witness: a job of a ranker that holds two partitions, listed second
\* before first, has built the three rows of data, labels, weights and
\* groups it passes to fit.
C22_Witness ==
    /\ is_ranker(call.model_factory)
    /\ call.sample_weight # NoGrid /\ call.group # NoGrid
    /\ Len(futures_classifiers) = 1
    /\ futures_classifiers[1].list_of_parts = <<2, 1>>
    /\ futures_classifiers[1].status = "running"
    /\ Len(futures_classifiers[1].fit_args.data) = 3
    /\ Len(futures_classifiers[1].fit_args.weight) = 3
    /\ Len(futures_classifiers[1].fit_args.group) = 3

=============================================================================
